---- MODULE Spec2Model ----
(***************************************************************************)
(* A model of the character-level bigram language model of                 *)
(* src/src/data_processing.py (vocabulary construction) and                *)
(* src/src/bigram_model.py (normalisation of counts, log-likelihood        *)
(* scoring, name generation).                                              *)
(*                                                                         *)
(* Conventions.                                                            *)
(*  - A Python str is a sequence of one-character strings; a token such as *)
(*    "<S>" is one TLA+ string, i.e. one symbol, as it is one element of   *)
(*    the Python list [start_token, *word, end_token].                     *)
(*  - A Python dict is a sequence of <<key, value>> pairs in insertion     *)
(*    order, with unique keys.                                             *)
(*  - A tensor cell is an unreduced fraction <<n, d>>.  d = 0 is what IEEE *)
(*    division by zero yields: <<0, 0>> is NaN, <<n, 0>> with n > 0 is     *)
(*    +Inf.  Arithmetic is exact; float32 rounding is not modelled.        *)
(*  - A log value is <<inf, k>>: <<0, k>> is k * ln 2, <<-1, 0>> is -inf,  *)
(*    <<1, 0>> is +inf.  Probabilities that are scored are powers of two,  *)
(*    so that their logarithms are integer multiples of ln 2.              *)
(***************************************************************************)
EXTENDS Integers, Sequences, FiniteSets

VARIABLES
    pc,                   \* position of the operation under way
    alphabet,             \* char_to_index's argument
    start_token,
    end_token,
    char_to_idx,          \* dict symbol -> index
    idx_to_char,          \* dict index -> symbol
    tensors,              \* the heap of tensors: reference -> matrix
    bigram_counts,        \* reference the caller passes to bigrams_count_to_probabilities
    dtype,                \* dtype of the count tensor
    smooth_factor,
    new_tensor,           \* reference held by the local new_tensor (0: unbound)
    rows_summed,          \* the local rows_summed (<<>>: unbound)
    counts_before,        \* the cells of the caller's count tensor before the call
    bigram_probabilities, \* the matrix given to generate_name / the likelihood functions
    max_length,
    current_char,
    generated_name,       \* sequence of the symbols concatenated so far
    iterations,           \* iterations of the for loop of generate_name begun
    draws,                \* history: every symbol sample_next_character returned
    words,                \* calculate_neg_mean_log_likelihood's argument
    log_likelihoods,      \* the list the map builds, one entry per word
    mean_log_likelihood   \* the value returned (unbound: <<0, 0, 0>>)

vocabVars == <<alphabet, start_token, end_token, char_to_idx, idx_to_char>>
normVars == <<tensors, bigram_counts, dtype, smooth_factor, new_tensor, rows_summed, counts_before>>
genVars == <<max_length, current_char, generated_name, iterations, draws>>
scoreVars == <<words, log_likelihoods, mean_log_likelihood>>
vars == <<pc, vocabVars, normVars, genVars, scoreVars, bigram_probabilities>>

----------------------------------------------------------------------------
(* Bounds of the model. *)

\* longest alphabet given to char_to_index
MaxAlphabetLen == 2

\* characters an alphabet is made of
AlphabetChars == {"a", "b"}

\* start and end tokens tried; "a" collides with an alphabet character
TokenChoices == {"<S>", "<E>", "a"}

\* the count tensors normalised are NormDim x NormDim
NormDim == 2

\* largest bigram count in a cell
MaxCount == 1

\* largest smooth_factor
MaxSmoothing == 1

\* dtypes of the count tensor: count_bigrams builds a float tensor
\* (torch.zeros), a caller may pass an integer one
Dtypes == {"float32", "int64"}

\* largest max_length given to generate_name
MaxLength == 2

\* cells of the matrices given to generate_name: weight 0, weight 1, NaN
GenerateCells == {<<0, 1>>, <<1, 1>>, <<0, 0>>}

\* longest list of words given to calculate_neg_mean_log_likelihood
MaxWords == 2

\* longest word in that list
MaxWordLen == 2

\* characters of the words: in the vocabulary, upper case, not in the vocabulary
WordChars == {"a", "A", "z"}

\* rows of <S> and a in the matrices that are scored, over the columns <S>, a,
\* <E>; every cell is 0 or a power of two.  The row of <E> is all zero (no
\* bigram starts with the end token)
LikelihoodRows ==
    { <<<<0, 1>>, <<1, 1>>, <<0, 1>>>>,
      <<<<0, 1>>, <<0, 1>>, <<1, 1>>>>,
      <<<<0, 1>>, <<1, 2>>, <<1, 2>>>>,
      <<<<1, 4>>, <<1, 4>>, <<1, 2>>>> }

\* the alphabet of the vocabulary the likelihood and generation functions use
ModelAlphabet == <<"a">>

----------------------------------------------------------------------------
(* Python dict and list helpers. *)

\* k in d
DictHas(d, k) == \E i \in 1..Len(d) : d[i][1] = k

\* d[k], for k in d
DictGet(d, k) == d[CHOOSE i \in 1..Len(d) : d[i][1] = k][2]

\* d[k] = v: an existing key keeps its place and takes the new value
DictSet(d, k, v) ==
    IF DictHas(d, k)
    THEN [i \in 1..Len(d) |-> IF d[i][1] = k THEN <<k, v>> ELSE d[i]]
    ELSE Append(d, <<k, v>>)

DictKeys(d) == {d[i][1] : i \in 1..Len(d)}

DictValues(d) == {d[i][2] : i \in 1..Len(d)}

\* all sequences over S of length at most n
SeqsUpTo(S, n) == UNION {[1..k -> S] : k \in 0..n}

\* the elements of a sequence
Range(s) == {s[i] : i \in 1..Len(s)}

----------------------------------------------------------------------------
(* data_processing.py: the vocabulary. *)

\* [start_token, *alphabet, end_token]
Bracketed(start, str, end) == <<start>> \o str \o <<end>>

\* the dict comprehension {val: i for i, val in enumerate(syms)}, from the
\* i-th element (1-based) on: a later occurrence overwrites the index
RECURSIVE EnumerateInto(_, _, _)
EnumerateInto(syms, i, d) ==
    IF i > Len(syms) THEN d
    ELSE EnumerateInto(syms, i + 1, DictSet(d, syms[i], i - 1))

\* both tokens put in front of the alphabet: [start_token, end_token, *alphabet]
char_to_index_tokens_first(alpha, start, end) ==
    EnumerateInto(<<start, end>> \o alpha, 1, <<>>)

char_to_index(alpha, start, end) ==
    EnumerateInto(Bracketed(start, alpha, end), 1, <<>>)

\* the dict comprehension {c2i[k]: k for k in c2i}, from the i-th key on
RECURSIVE ReverseInto(_, _, _)
ReverseInto(c2i, i, d) ==
    IF i > Len(c2i) THEN d
    ELSE ReverseInto(c2i, i + 1, DictSet(d, c2i[i][2], c2i[i][1]))

index_to_char(c2i) == ReverseInto(c2i, 1, <<>>)

\* line 64 of data_processing.py
CharToIndex ==
    /\ pc = "char_to_index"
    /\ char_to_idx' = char_to_index(alphabet, start_token, end_token)
    /\ pc' = "index_to_char"
    /\ UNCHANGED <<alphabet, start_token, end_token, idx_to_char>>
    /\ UNCHANGED <<normVars, genVars, scoreVars, bigram_probabilities>>

\* line 80 of data_processing.py, on the dict CharToIndex built (line 167)
IndexToChar ==
    /\ pc = "index_to_char"
    /\ idx_to_char' = index_to_char(char_to_idx)
    /\ pc' = "vocabulary"
    /\ UNCHANGED <<alphabet, start_token, end_token, char_to_idx>>
    /\ UNCHANGED <<normVars, genVars, scoreVars, bigram_probabilities>>

----------------------------------------------------------------------------
(* Tensor cells and the torch operations bigram_model.py uses. *)

NaN == <<0, 0>>

Inf == <<1, 0>>

Cell(n) == <<n, 1>>

IsFinite(c) == c[2] # 0

IsNaN(c) == c[2] = 0 /\ c[1] = 0

\* equality of two finite cells as numbers
CellEq(a, b) == IsFinite(a) /\ IsFinite(b) /\ a[1] * b[2] = b[1] * a[2]

\* a + b
CellAdd(a, b) ==
    IF IsFinite(a) /\ IsFinite(b) THEN <<a[1] * b[2] + b[1] * a[2], a[2] * b[2]>>
    ELSE IF IsNaN(a) \/ IsNaN(b) THEN NaN ELSE Inf

\* a / b for cells that are not negative: x / 0 is +Inf, 0 / 0 is NaN
CellDiv(a, b) ==
    IF IsFinite(a) /\ IsFinite(b)
    THEN IF b[1] # 0 THEN <<a[1] * b[2], a[2] * b[1]>>
         ELSE IF a[1] = 0 THEN NaN ELSE Inf
    ELSE IF IsFinite(a) /\ ~IsNaN(b) THEN Cell(0) ELSE NaN

\* sum of the cells row[i..]
RECURSIVE SumFrom(_, _)
SumFrom(row, i) ==
    IF i > Len(row) THEN Cell(0) ELSE CellAdd(row[i], SumFrom(row, i + 1))

\* tensor += scalar (broadcast over every cell)
AddScalar(m, s) ==
    [i \in 1..Len(m) |-> [j \in 1..Len(m[i]) |-> CellAdd(m[i][j], Cell(s))]]

\* tensor.sum(dim=0): one sum per column, the reduction along the other axis
SumDim0(m) ==
    [i \in 1..Len(m) |-> SumFrom([k \in 1..Len(m) |-> m[k][i]], 1)]

\* tensor.sum(dim=1, keepdim=True): one sum per row, as a column
SumDim1(m) == [i \in 1..Len(m) |-> SumFrom(m[i], 1)]

\* tensor /= column (row i is divided by column[i])
DivByColumn(m, col) ==
    [i \in 1..Len(m) |-> [j \in 1..Len(m[i]) |-> CellDiv(m[i][j], col[i])]]

\* no copy at all: the "clone" is the source tensor itself, which line 29's
\* comment ("so as not to modify the original") is there to prevent
AliasRef(heap, ref) == ref

\* the reference tensor.clone() returns: a tensor not yet in the heap
CloneRef(heap, ref) == Cardinality(DOMAIN heap) + 1

----------------------------------------------------------------------------
(* bigram_model.py: bigrams_count_to_probabilities, statement by statement. *)

\* line 29: new_tensor = bigram_counts.clone()
Clone ==
    /\ pc = "clone"
    /\ LET r == CloneRef(tensors, bigram_counts) IN
         /\ new_tensor' = r
         /\ tensors' = [x \in DOMAIN tensors \cup {r} |->
                            IF x = r THEN tensors[bigram_counts] ELSE tensors[x]]
    /\ pc' = "add"
    /\ UNCHANGED <<bigram_counts, dtype, smooth_factor, rows_summed, counts_before>>
    /\ UNCHANGED <<vocabVars, genVars, scoreVars, bigram_probabilities>>

\* line 30: new_tensor += smooth_factor
AddSmoothing ==
    /\ pc = "add"
    /\ tensors' = [tensors EXCEPT ![new_tensor] = AddScalar(@, smooth_factor)]
    /\ pc' = "sum"
    /\ UNCHANGED <<bigram_counts, dtype, smooth_factor, new_tensor, rows_summed,
                   counts_before>>
    /\ UNCHANGED <<vocabVars, genVars, scoreVars, bigram_probabilities>>

\* line 32: rows_summed = new_tensor.sum(dim=1, keepdim=True)
SumRows ==
    /\ pc = "sum"
    /\ rows_summed' = SumDim1(tensors[new_tensor])
    /\ pc' = "div"
    /\ UNCHANGED <<tensors, bigram_counts, dtype, smooth_factor, new_tensor,
                   counts_before>>
    /\ UNCHANGED <<vocabVars, genVars, scoreVars, bigram_probabilities>>

\* lines 38-40: new_tensor /= rows_summed; return new_tensor
DivideRows ==
    /\ pc = "div"
    /\ dtype = "float32"
    /\ tensors' = [tensors EXCEPT ![new_tensor] = DivByColumn(@, rows_summed)]
    /\ pc' = "normalized"
    /\ UNCHANGED <<bigram_counts, dtype, smooth_factor, new_tensor, rows_summed,
                   counts_before>>
    /\ UNCHANGED <<vocabVars, genVars, scoreVars, bigram_probabilities>>

\* line 38 on an integer tensor: the in-place true division raises
\* RuntimeError (a Float result cannot be written into a Long tensor)
DivideRaises ==
    /\ pc = "div"
    /\ dtype = "int64"
    /\ pc' = "RuntimeError"
    /\ UNCHANGED <<normVars, vocabVars, genVars, scoreVars, bigram_probabilities>>

----------------------------------------------------------------------------
(* bigram_model.py: sample_next_character and generate_name. *)

\* a sampler that validates nothing: it draws among the positive weights and
\* falls back to index 0 when there is none
multinomial_unchecked(row) ==
    IF \E j \in 1..Len(row) : row[j][1] > 0 /\ row[j][2] > 0
    THEN {j - 1 : j \in {k \in 1..Len(row) : row[k][1] > 0 /\ row[k][2] > 0}}
    ELSE {0}

\* torch.multinomial(row, num_samples=1).item(): the indices (0-based) it can
\* return, each weight > 0 being possible; {-1} stands for the RuntimeError
\* it raises when the row holds inf, nan or a negative weight, or sums to 0
multinomial(row) ==
    IF \E j \in 1..Len(row) : ~IsFinite(row[j]) \/ row[j][1] * row[j][2] < 0
    THEN {-1}
    ELSE IF \A j \in 1..Len(row) : row[j][1] = 0
    THEN {-1}
    ELSE {j - 1 : j \in {k \in 1..Len(row) : row[k][1] # 0}}

\* lines 97-104: the symbols sample_next_character can return;
\* "RuntimeError" stands for the error of torch.multinomial passing through
sample_next_character(current_char_index, probability_distribution, i2c) ==
    LET current_probs == probability_distribution[current_char_index + 1]
        next_char_index == multinomial(current_probs)
    IN  IF next_char_index = {-1} THEN {"RuntimeError"}
        ELSE {DictGet(i2c, j) : j \in next_char_index}

\* line 139: what the call of sample_next_character can return now
Sampled ==
    sample_next_character(DictGet(char_to_idx, current_char),
                          bigram_probabilities, idx_to_char)

\* the loop body with the test of line 140 after the concatenation of line
\* 142: the end token is concatenated before the loop is left
SampleEndAppended ==
    /\ pc = "loop"
    /\ iterations < max_length
    /\ end_token \in Sampled
    /\ current_char' = end_token
    /\ generated_name' = Append(generated_name, end_token)
    /\ draws' = Append(draws, end_token)
    /\ iterations' = iterations + 1
    /\ pc' = "generated"
    /\ UNCHANGED <<max_length, vocabVars, normVars, scoreVars, bigram_probabilities>>

\* the loop body with line 139 assigning to a second variable: the next
\* symbol is always sampled from the row of the symbol current_char holds
SampleAppendStale ==
    /\ pc = "loop"
    /\ iterations < max_length
    /\ \E c \in Sampled \ {"RuntimeError", end_token} :
          /\ generated_name' = Append(generated_name, c)
          /\ draws' = Append(draws, c)
    /\ iterations' = iterations + 1
    /\ UNCHANGED <<pc, current_char>>
    /\ UNCHANGED <<max_length, vocabVars, normVars, scoreVars, bigram_probabilities>>

\* lines 138-142, an iteration that samples a symbol other than end_token:
\* it becomes current_char and is concatenated to generated_name
SampleAppend ==
    /\ pc = "loop"
    /\ iterations < max_length
    /\ \E c \in Sampled \ {"RuntimeError", end_token} :
          /\ current_char' = c
          /\ generated_name' = Append(generated_name, c)
          /\ draws' = Append(draws, c)
    /\ iterations' = iterations + 1
    /\ pc' = "loop"
    /\ UNCHANGED <<max_length, vocabVars, normVars, scoreVars, bigram_probabilities>>

\* lines 138-141 and 144, an iteration that samples end_token: break, and
\* generated_name is returned
SampleEnd ==
    /\ pc = "loop"
    /\ iterations < max_length
    /\ end_token \in Sampled
    /\ current_char' = end_token
    /\ draws' = Append(draws, end_token)
    /\ iterations' = iterations + 1
    /\ pc' = "generated"
    /\ UNCHANGED <<max_length, generated_name>>
    /\ UNCHANGED <<vocabVars, normVars, scoreVars, bigram_probabilities>>

\* line 139 when torch.multinomial raises: nothing catches the error and
\* generate_name returns nothing
SampleRaises ==
    /\ pc = "loop"
    /\ iterations < max_length
    /\ "RuntimeError" \in Sampled
    /\ pc' = "RuntimeError"
    /\ UNCHANGED <<genVars, vocabVars, normVars, scoreVars, bigram_probabilities>>

\* lines 138 and 144: range(max_length) is exhausted, generated_name is returned
LoopExhausted ==
    /\ pc = "loop"
    /\ iterations = max_length
    /\ pc' = "generated"
    /\ UNCHANGED <<genVars, vocabVars, normVars, scoreVars, bigram_probabilities>>

----------------------------------------------------------------------------
(* bigram_model.py: calculate_log_likelihood and                            *)
(* calculate_neg_mean_log_likelihood.                                       *)

NegInf == <<-1, 0>>

Fin(k) == <<0, k>>

\* a + b for log values, none of them +inf
LogAdd(a, b) == IF a = NegInf \/ b = NegInf THEN NegInf ELSE Fin(a[2] + b[2])

\* log2 of a power of two
RECURSIVE Log2(_)
Log2(n) == IF n <= 1 THEN 0 ELSE 1 + Log2(n \div 2)

\* torch.log of a cell 0 or n/d, n and d powers of two, in units of ln 2
torch_log(c) == IF c[1] = 0 THEN NegInf ELSE Fin(Log2(c[1]) - Log2(c[2]))

\* str.lower() of one character
LowerChar(c) == IF c = "A" THEN "a" ELSE IF c = "Z" THEN "z" ELSE c

\* str.lower()
str_lower(word) == [i \in 1..Len(word) |-> LowerChar(word[i])]

\* lines 183-184: the loop over i = first-1 .. last-1 of range(...), from
\* log_likelihood = acc
RECURSIVE LogLikelihoodLoop(_, _, _, _, _, _)
LogLikelihoodLoop(processed_word, i, last, acc, probs, c2i) ==
    IF i > last THEN acc
    ELSE LogLikelihoodLoop(
             processed_word, i + 1, last,
             LogAdd(acc, torch_log(probs[DictGet(c2i, processed_word[i]) + 1]
                                        [DictGet(c2i, processed_word[i + 1]) + 1])),
             probs, c2i)

\* line 184 raises KeyError: a symbol of processed_word is not in the dict
\* (every element of processed_word is looked up)
RaisesKeyError(word, c2i, start, end) ==
    \E i \in 1..Len(Bracketed(start, word, end)) :
        ~DictHas(c2i, Bracketed(start, word, end)[i])

\* the loop over range(len(processed_word) - 2): the last bigram is left out
calculate_log_likelihood_short(word, probs, c2i, start, end) ==
    LogLikelihoodLoop(Bracketed(start, word, end), 1, Len(word), Fin(0), probs, c2i)

\* lines 176-186, for a word that raises no KeyError
calculate_log_likelihood(word, probs, c2i, start, end) ==
    LogLikelihoodLoop(Bracketed(start, word, end), 1, Len(word) + 1, Fin(0), probs, c2i)

\* sum(xs), from xs[i] on
RECURSIVE PySum(_, _)
PySum(xs, i) == IF i > Len(xs) THEN Fin(0) ELSE LogAdd(xs[i], PySum(xs, i + 1))

\* sum(xs)/len(xs) without the minus sign
mean_not_negated(xs) ==
    IF PySum(xs, 1) = NegInf THEN <<-1, 0, 1>> ELSE <<0, PySum(xs, 1)[2], Len(xs)>>

\* line 76 for a list that is not empty: -(sum(xs)/len(xs)), as
\* <<inf, numerator, denominator>>
neg_mean(xs) ==
    IF PySum(xs, 1) = NegInf THEN <<1, 0, 1>> ELSE <<0, -PySum(xs, 1)[2], Len(xs)>>

\* lines 72-73, one step of the map: the next word is lower-cased and scored
ScoreWord ==
    /\ pc = "map"
    /\ Len(log_likelihoods) < Len(words)
    /\ LET x == words[Len(log_likelihoods) + 1] IN
         /\ ~RaisesKeyError(str_lower(x), char_to_idx, start_token, end_token)
         /\ log_likelihoods' =
                Append(log_likelihoods,
                       calculate_log_likelihood(str_lower(x), bigram_probabilities,
                                                char_to_idx, start_token, end_token))
    /\ UNCHANGED <<pc, words, mean_log_likelihood>>
    /\ UNCHANGED <<vocabVars, normVars, genVars, bigram_probabilities>>

\* lines 72-73, a step of the map on a word with a character that is not in
\* the vocabulary: the KeyError of line 184 ends the call
ScoreWordRaises ==
    /\ pc = "map"
    /\ Len(log_likelihoods) < Len(words)
    /\ RaisesKeyError(str_lower(words[Len(log_likelihoods) + 1]),
                      char_to_idx, start_token, end_token)
    /\ pc' = "KeyError"
    /\ UNCHANGED <<scoreVars, vocabVars, normVars, genVars, bigram_probabilities>>

\* lines 76-77 on a list that is not empty
Average ==
    /\ pc = "map"
    /\ Len(log_likelihoods) = Len(words)
    /\ Len(log_likelihoods) # 0
    /\ mean_log_likelihood' = neg_mean(log_likelihoods)
    /\ pc' = "averaged"
    /\ UNCHANGED <<words, log_likelihoods>>
    /\ UNCHANGED <<vocabVars, normVars, genVars, bigram_probabilities>>

\* line 76 on an empty list: the division by len(log_likelihoods) = 0 raises
AverageRaises ==
    /\ pc = "map"
    /\ Len(log_likelihoods) = Len(words)
    /\ Len(log_likelihoods) = 0
    /\ pc' = "ZeroDivisionError"
    /\ UNCHANGED <<scoreVars, vocabVars, normVars, genVars, bigram_probabilities>>

----------------------------------------------------------------------------
(* Initial states.  Each operation is a function of its arguments: an       *)
(* initial state holds the arguments of one call, and the variables of the *)
(* other operations are at rest.                                           *)

VocabularyBuilt ==
    /\ alphabet = ModelAlphabet
    /\ start_token = "<S>"
    /\ end_token = "<E>"
    /\ char_to_idx = char_to_index(ModelAlphabet, "<S>", "<E>")
    /\ idx_to_char = index_to_char(char_to_index(ModelAlphabet, "<S>", "<E>"))

NormalizeAtRest ==
    /\ tensors = <<>>
    /\ bigram_counts = 0
    /\ dtype = "float32"
    /\ smooth_factor = 0
    /\ new_tensor = 0
    /\ rows_summed = <<>>
    /\ counts_before = <<>>

GenerateAtRest ==
    /\ max_length = 0
    /\ current_char = ""
    /\ generated_name = <<>>
    /\ iterations = 0
    /\ draws = <<>>

LikelihoodAtRest ==
    /\ words = <<>>
    /\ log_likelihoods = <<>>
    /\ mean_log_likelihood = <<0, 0, 0>>

\* the arguments of char_to_index
InitVocabulary ==
    /\ pc = "char_to_index"
    /\ alphabet \in SeqsUpTo(AlphabetChars, MaxAlphabetLen)
    /\ start_token \in TokenChoices
    /\ end_token \in TokenChoices
    /\ char_to_idx = <<>>
    /\ idx_to_char = <<>>
    /\ bigram_probabilities = <<>>
    /\ NormalizeAtRest /\ GenerateAtRest /\ LikelihoodAtRest

\* square matrices of the given cells
Matrices(n, cells) == [1..n -> [1..n -> cells]]

\* the arguments of bigrams_count_to_probabilities: a tensor of counts that
\* are not negative, as count_bigrams builds them, and a smooth_factor
InitNormalize ==
    /\ pc = "clone"
    /\ counts_before \in Matrices(NormDim, {Cell(c) : c \in 0..MaxCount})
    /\ bigram_counts = 1
    /\ tensors = <<counts_before>>
    /\ dtype \in Dtypes
    /\ smooth_factor \in 0..MaxSmoothing
    /\ new_tensor = 0
    /\ rows_summed = <<>>
    /\ bigram_probabilities = <<>>
    /\ VocabularyBuilt /\ GenerateAtRest /\ LikelihoodAtRest

\* the arguments of generate_name, and lines 134-135: current_char is the
\* start token and generated_name is empty
InitGenerate ==
    /\ pc = "loop"
    /\ VocabularyBuilt
    /\ bigram_probabilities \in Matrices(Len(ModelAlphabet) + 2, GenerateCells)
    /\ max_length \in 1..MaxLength
    /\ current_char = start_token
    /\ generated_name = <<>>
    /\ iterations = 0
    /\ draws = <<>>
    /\ NormalizeAtRest /\ LikelihoodAtRest

\* the arguments of calculate_neg_mean_log_likelihood
InitLikelihood ==
    /\ pc = "map"
    /\ VocabularyBuilt
    /\ \E rows \in [1..(Len(ModelAlphabet) + 1) -> LikelihoodRows] :
          bigram_probabilities = Append(rows, [j \in 1..Len(rows) + 1 |-> <<0, 1>>])
    /\ words \in SeqsUpTo(SeqsUpTo(WordChars, MaxWordLen), MaxWords)
    /\ log_likelihoods = <<>>
    /\ mean_log_likelihood = <<0, 0, 0>>
    /\ NormalizeAtRest /\ GenerateAtRest

NextVocabulary == CharToIndex \/ IndexToChar

NextNormalize == Clone \/ AddSmoothing \/ SumRows \/ DivideRows \/ DivideRaises

NextGenerate == SampleAppend \/ SampleEnd \/ SampleRaises \/ LoopExhausted

SpecGenerate == InitGenerate /\ [][NextGenerate]_vars

NextLikelihood == ScoreWord \/ ScoreWordRaises \/ Average \/ AverageRaises

SpecLikelihood == InitLikelihood /\ [][NextLikelihood]_vars

Init == InitVocabulary \/ InitNormalize \/ InitGenerate \/ InitLikelihood

Next == NextVocabulary \/ NextNormalize \/ NextGenerate \/ NextLikelihood

Spec == Init /\ [][Next]_vars

SpecVocabulary == InitVocabulary /\ [][NextVocabulary]_vars

SpecNormalize == InitNormalize /\ [][NextNormalize]_vars

----------------------------------------------------------------------------
(* Properties of the vocabulary (SpecVocabulary). *)

\* the symbols handed to the dict comprehension of char_to_index
Symbols == Bracketed(start_token, alphabet, end_token)

\* no symbol occurs twice: the alphabet has unique characters (the
\* docstring of char_to_index) and the tokens differ from them and each other
SymbolsDistinct ==
    \A i, j \in 1..Len(Symbols) : i # j => Symbols[i] # Symbols[j]

\* char_to_idx and idx_to_char are inverse bijections between the symbols and
\* 0..V-1, V = len(alphabet) + 2, with start at 0 and end at V-1
BijectionOntoDenseIndices ==
    LET V == Len(alphabet) + 2 IN
    /\ DictKeys(char_to_idx) = Range(Symbols)
    /\ DictValues(char_to_idx) = 0..(V - 1)
    /\ Len(char_to_idx) = V
    /\ DictKeys(idx_to_char) = 0..(V - 1)
    /\ \A k \in DictKeys(char_to_idx) :
          /\ DictHas(idx_to_char, DictGet(char_to_idx, k))
          /\ DictGet(idx_to_char, DictGet(char_to_idx, k)) = k
    /\ \A i \in DictKeys(idx_to_char) :
          /\ DictHas(char_to_idx, DictGet(idx_to_char, i))
          /\ DictGet(char_to_idx, DictGet(idx_to_char, i)) = i
    /\ DictGet(char_to_idx, start_token) = 0
    /\ DictGet(char_to_idx, end_token) = V - 1

\* C7 as stated: for every alphabet and every start and end token, the two
\* maps are inverse bijections between the symbols and the dense indices
\* 0..V-1, with start at index 0 and end at index V-1.
VocabularyRoundTripAnyInput ==
    pc = "vocabulary" => BijectionOntoDenseIndices

\* C7 amended: the same, for an alphabet of distinct characters and start and
\* end tokens that differ from each other and from every alphabet character.
VocabularyRoundTrip ==
    (pc = "vocabulary" /\ SymbolsDistinct) => BijectionOntoDenseIndices

\* a vocabulary of four distinct symbols has been built
VocabularyRoundTripWitness ==
    /\ pc = "vocabulary"
    /\ SymbolsDistinct
    /\ Len(alphabet) = 2
    /\ Len(idx_to_char) = 4

----------------------------------------------------------------------------
(* Properties of bigrams_count_to_probabilities (SpecNormalize). *)

\* row[1] + ... + row[n] for a row of counts
RECURSIVE Total(_, _)
Total(row, n) == IF n = 0 THEN 0 ELSE row[n][1] + Total(row, n - 1)

\* sum of row i of the counts after smoothing
SmoothedTotal(i) ==
    Total(counts_before[i], Len(counts_before[i]))
        + Len(counts_before[i]) * smooth_factor

\* C2: every row of the output whose smoothed row sum is positive has
\* entries (count + smoothing) / (row sum + V * smoothing), none negative,
\* that sum to 1.
NormalizedRowsSumToOne ==
    pc = "normalized" =>
        \A i \in 1..Len(counts_before) :
            SmoothedTotal(i) > 0 =>
                /\ \A j \in 1..Len(counts_before[i]) :
                      LET p == tensors[new_tensor][i][j] IN
                      /\ IsFinite(p) /\ p[1] >= 0 /\ p[2] > 0
                      /\ CellEq(p, <<counts_before[i][j][1] + smooth_factor,
                                     SmoothedTotal(i)>>)
                /\ CellEq(SumFrom(tensors[new_tensor][i], 1), Cell(1))

\* a smoothed tensor with unequal counts in a row has been normalised
NormalizedRowsWitness ==
    /\ pc = "normalized"
    /\ smooth_factor > 0
    /\ \E i \in 1..Len(counts_before) :
          \E j, k \in 1..Len(counts_before[i]) :
              counts_before[i][j][1] > counts_before[i][k][1]

\* C3: the caller's count tensor holds the same cells in every state of the
\* call as before it, whatever the smoothing and however the call ends.
InputNeverMutated == tensors[bigram_counts] = counts_before

\* the call ended in an error after the smoothing was added to the clone
InputNeverMutatedWitness ==
    /\ pc = "RuntimeError"
    /\ smooth_factor > 0
    /\ tensors[new_tensor] # counts_before

\* C4: with smoothing 0, a row of counts that is all zero comes out as a row
\* of zeros (not NaN, not Inf).
ZeroRowYieldsZeros ==
    (pc = "normalized" /\ smooth_factor = 0) =>
        \A i \in 1..Len(counts_before) :
            (\A j \in 1..Len(counts_before[i]) : counts_before[i][j] = Cell(0)) =>
                \A j \in 1..Len(counts_before[i]) :
                    CellEq(tensors[new_tensor][i][j], Cell(0))

----------------------------------------------------------------------------
(* Properties of generate_name (SpecGenerate). *)

\* C1: the name returned has at most max_length symbols and no end token;
\* at most max_length symbols are sampled, and the name is what was sampled,
\* up to the first end token or to max_length samples.
NameBoundedAndEndFree ==
    /\ Len(draws) <= max_length
    /\ pc = "generated" =>
          /\ Len(generated_name) <= max_length
          /\ end_token \notin Range(generated_name)
          /\ \/ draws = generated_name /\ Len(draws) = max_length
             \/ draws = Append(generated_name, end_token)

\* a name of max_length >= 2 symbols has been returned from a state in which
\* the end token could have been sampled as well
NameBoundedWitness ==
    /\ pc = "generated"
    /\ max_length >= 2
    /\ Len(generated_name) = max_length
    /\ end_token \in Sampled

\* the row of the matrix that belongs to a symbol
RowOf(sym) == bigram_probabilities[DictGet(char_to_idx, sym) + 1]

\* a row whose weights are all zero, or all NaN (what normalising a row of
\* zero counts with smoothing 0 yields)
Degenerate(row) ==
    \/ \A j \in 1..Len(row) : row[j] = Cell(0)
    \/ \A j \in 1..Len(row) : row[j] = NaN

\* C5: when the row of the current symbol is degenerate, the step
\* generate_name takes is the error: it neither returns nor goes on.
DegenerateRowRaises ==
    [][(pc = "loop" /\ iterations < max_length /\ Degenerate(RowOf(current_char)))
          => (pc' = "RuntimeError" /\ generated_name' = generated_name)]_vars

\* generation has failed on a degenerate row reached after the first symbol
DegenerateRowWitness ==
    /\ pc = "RuntimeError"
    /\ Len(generated_name) >= 1
    /\ Degenerate(RowOf(current_char))

\* C9: neither the start token nor the end token occurs in the name returned.
NameExcludesBoundaries ==
    pc = "generated" =>
        /\ start_token \notin Range(generated_name)
        /\ end_token \notin Range(generated_name)

\* a row that puts weight 1 on one symbol and weight 0 on every other
PointRow(row) ==
    /\ \A j \in 1..Len(row) : row[j] \in {Cell(0), Cell(1)}
    /\ Cardinality({j \in 1..Len(row) : row[j] = Cell(1)}) = 1

\* the one symbol a point row leads to
Successor(sym) ==
    DictGet(idx_to_char, (CHOOSE j \in 1..Len(RowOf(sym)) : RowOf(sym)[j] = Cell(1)) - 1)

\* the rows met in n steps from sym, stopping at the end token, are point rows
RECURSIVE ChainIsDeterministic(_, _)
ChainIsDeterministic(sym, n) ==
    \/ n = 0
    \/ /\ PointRow(RowOf(sym))
       /\ \/ Successor(sym) = end_token
          \/ ChainIsDeterministic(Successor(sym), n - 1)

\* the successors of sym, cut at the first end token or after n symbols
RECURSIVE Chain(_, _)
Chain(sym, n) ==
    IF n = 0 \/ Successor(sym) = end_token THEN <<>>
    ELSE <<Successor(sym)>> \o Chain(Successor(sym), n - 1)

\* C10: when every row met from the start token is a point row, generation
\* cannot fail and the name returned is the chain of successors of the start
\* token, cut at the first end token or after max_length symbols.
DeterministicChainGenerated ==
    ChainIsDeterministic(start_token, max_length) =>
        /\ pc # "RuntimeError"
        /\ pc = "generated" => generated_name = Chain(start_token, max_length)
        /\ Len(generated_name) <= Len(Chain(start_token, max_length))
        /\ \A i \in 1..Len(generated_name) :
              generated_name[i] = Chain(start_token, max_length)[i]

\* a deterministic chain of at least one symbol was generated and was ended
\* by the end token
DeterministicChainWitness ==
    /\ pc = "generated"
    /\ ChainIsDeterministic(start_token, max_length)
    /\ Len(generated_name) >= 1
    /\ draws = Append(generated_name, end_token)

----------------------------------------------------------------------------
(* Properties of the likelihood functions (SpecLikelihood). *)

\* the words whose log-likelihood has been computed, as they were scored
Scored(i) == str_lower(words[i])

\* how often symbol x is followed by symbol y in seq
Occurrences(seq, x, y) ==
    Cardinality({k \in 1..(Len(seq) - 1) : seq[k] = x /\ seq[k + 1] = y})

\* k * v for a log value v and k >= 0 (0 * -inf counted as 0: no such bigram)
LogTimes(k, v) ==
    IF k = 0 THEN Fin(0) ELSE IF v = NegInf THEN NegInf ELSE Fin(k * v[2])

\* sum over the cells (x, y) numbered n, n-1, ..., 1 of the matrix of
\* (occurrences of the bigram x y in seq) * log(probs[x][y])
RECURSIVE SumOverCells(_, _)
SumOverCells(seq, n) ==
    IF n = 0 THEN Fin(0)
    ELSE LET V == Len(char_to_idx)
             x == char_to_idx[((n - 1) \div V) + 1]
             y == char_to_idx[((n - 1) % V) + 1]
         IN  LogAdd(LogTimes(Occurrences(seq, x[1], y[1]),
                             torch_log(bigram_probabilities[x[2] + 1][y[2] + 1])),
                    SumOverCells(seq, n - 1))

\* C8: the log-likelihood of a word of n characters of the vocabulary is the
\* sum of log(probs[prev][next]) over the n + 1 adjacent pairs of
\* [start, c1, ..., cn, end], the tokens "<S>" and "<E>" being one symbol
\* each; the empty word scores the pair (start, end) alone.
LogLikelihoodSumsBigrams ==
    \A i \in 1..Len(log_likelihoods) :
        LET seq == <<start_token>> \o Scored(i) \o <<end_token>> IN
        /\ log_likelihoods[i] =
               SumOverCells(seq, Len(char_to_idx) * Len(char_to_idx))
        /\ Scored(i) = <<>> =>
               log_likelihoods[i] =
                   torch_log(bigram_probabilities[DictGet(char_to_idx, start_token) + 1]
                                                 [DictGet(char_to_idx, end_token) + 1])

\* a word of two characters got a finite log-likelihood from a matrix whose
\* rows for <S> and a differ
LogLikelihoodWitness ==
    /\ Len(log_likelihoods) >= 1
    /\ Len(words[1]) = 2
    /\ log_likelihoods[1] # NegInf
    /\ log_likelihoods[1] # Fin(0)
    /\ bigram_probabilities[1] # bigram_probabilities[2]

\* C6: on an empty list the call ends in the ZeroDivisionError of the
\* averaging and returns nothing; on a list that is not empty it does not,
\* and what it returns is minus the mean of the log-likelihoods of the
\* lower-cased words (a KeyError needs a character outside the vocabulary).
EmptyListRaisesElseNegMean ==
    /\ (words = <<>> /\ pc # "map") =>
          (pc = "ZeroDivisionError" /\ mean_log_likelihood = <<0, 0, 0>>)
    /\ pc = "ZeroDivisionError" => words = <<>>
    /\ pc = "KeyError" =>
          \E i \in 1..Len(words) : \E j \in 1..Len(words[i]) :
              ~DictHas(char_to_idx, LowerChar(words[i][j]))
    /\ pc = "averaged" =>
          LET each == [i \in 1..Len(words) |->
                          calculate_log_likelihood(Scored(i), bigram_probabilities,
                                                   char_to_idx, start_token, end_token)]
              minus_inf == \E i \in 1..Len(words) : each[i] = NegInf
              total == PySum([i \in 1..Len(words) |->
                                 IF each[i] = NegInf THEN Fin(0) ELSE each[i]], 1)[2]
          IN  /\ Len(words) > 0
              /\ minus_inf => mean_log_likelihood[1] = 1
              /\ ~minus_inf =>
                    /\ mean_log_likelihood[1] = 0
                    /\ mean_log_likelihood[3] > 0
                    /\ mean_log_likelihood[2] * Len(words)
                           = (0 - total) * mean_log_likelihood[3]

\* the call on the empty list has ended in the ZeroDivisionError
EmptyListWitness ==
    /\ pc = "ZeroDivisionError"
    /\ words = <<>>
    /\ log_likelihoods = <<>>

====
